---------------------------- MODULE Spec2Model ----------------------------
(***************************************************************************)
(* RLCE (Route-Lock Cellular Enforcement) demo, src/demo/rcle-demo.py.     *)
(*                                                                         *)
(* Conventions of the model                                                *)
(*   - Lengths are in units of 10 px: every length the code compares       *)
(*     (hysteresis 0..120 step 10, radius 220, toggle radius 200) is a     *)
(*     multiple of 10 px, and the modelled worlds place route points,      *)
(*     towers and the vehicle on that 10 px grid.                          *)
(*   - Times are in milliseconds (the code holds seconds as floats and     *)
(*     compares (now - last_poll_time) * 1000.0 with poll_ms).             *)
(*   - A distance to a segment is kept as its exact square, a fraction     *)
(*     <<num, den>>; comparisons of distances are done on the squares.     *)
(*   - Python's None is the empty sequence <<>>, a value v that may be     *)
(*     None is <<v>>.  Segment indices are 0-based as in the code.         *)
(***************************************************************************)
EXTENDS Integers, Sequences, FiniteSets, TLC

VARIABLES
    towers,          \* RLCE.towers / main's towers list (the same list object)
    segments,        \* RLCE.route.segments, each [idx, a, b, cal]
    grace,           \* RLCE.grace
    hysteresis,      \* RLCE.hysteresis
    poll_ms,         \* RLCE.poll_ms
    last_seg_idx,    \* RLCE.last_seg_idx      (None or an index)
    last_serving,    \* RLCE.last_serving      (None or a tower object)
    serving_live,    \* last_serving is an element of the current towers list
    last_poll_time,  \* RLCE.last_poll_time
    log,             \* RLCE.log
    train,           \* Train.pos()
    now,             \* main's now = time.time()
    step_out,        \* what the last call of RLCE.step returned
    step_locals,     \* the local variables of that call, None if it polled nothing
    pc,              \* where the caller is: "loop", "stepped" (step has returned
                     \* to main), "located" (locate_segment has returned)
    fault,           \* the exception that ended the program, or "none"
    msgs,            \* how many lines the key handlers have appended to the log
    esc_first,       \* main's esc_first       (None or the time of the arming ESC)
    running          \* main's running

vars == <<towers, segments, grace, hysteresis, poll_ms, last_seg_idx,
          last_serving, serving_live, last_poll_time, log, train, now,
          step_out, step_locals, pc, fault, msgs, esc_first, running>>

None == <<>>
Some(v) == <<v>>

-----------------------------------------------------------------------------
(* Geometry utils *)

RECURSIVE GCD(_, _)
GCD(m, n) == IF n = 0 THEN m ELSE GCD(n, m % n)

\* The fraction n/d (n >= 0, d > 0) in lowest terms.
Frac(n, d) == LET g == GCD(n, d) IN <<n \div g, d \div g>>

\* dist(a, b) squared.
dist2(a, b) == (a[1] - b[1]) * (a[1] - b[1]) + (a[2] - b[2]) * (a[2] - b[2])

\* The third component of project_point_to_segment(p, a, b), squared: the
\* distance from p to the point of segment a-b at parameter t clamped to [0,1].
project_point_to_segment(p, a, b) ==
    LET abx == b[1] - a[1]
        aby == b[2] - a[2]
        ab2 == abx * abx + aby * aby
        apx == p[1] - a[1]
        apy == p[2] - a[2]
        dot == apx * abx + apy * aby
    IN  IF ab2 = 0 THEN <<dist2(p, a), 1>>
        ELSE IF dot <= 0 THEN <<dist2(p, a), 1>>
        ELSE IF dot >= ab2 THEN <<dist2(p, b), 1>>
        ELSE Frac((apx * apx + apy * apy) * ab2 - dot * dot, ab2)

\* u < v and u = v for two distances given by their squares.
DistLess(u, v) == u[1] * v[2] < v[1] * u[2]
DistEq(u, v) == u[1] * v[2] = v[1] * u[2]

\* d_new + h < d_current for distances given by their squares and h >= 0:
\* with L = d_current^2 - d_new^2 - h^2 it is L > 0 and L^2 > 4 h^2 d_new^2.
PlusLess(dnew, h, dcur) ==
    LET Ln == dcur[1] * dnew[2] - dnew[1] * dcur[2] - h * h * dnew[2] * dcur[2]
    IN  /\ Ln > 0
        /\ Ln * Ln > 4 * h * h * dnew[1] * dnew[2] * dcur[2] * dcur[2]

-----------------------------------------------------------------------------
(* Domain types *)

PLMNS == <<"310260", "311480", "310410">>

ALLOWED_ARFCN(tech) ==
    IF tech = "LTE" THEN {66486, 66490, 66500, 5140, 1302}
    ELSE IF tech = "NR" THEN {523800, 627936}
    ELSE {}

\* The channels make_towers and the rogue toggle give a rogue tower.
ROGUE_ARFCN == <<1492, 3350, 4990, 700000>>

\* Route.operator_plmn
operator_plmn == "310260"

\* CellTower(id, x, y, plmn, tech, arfcn, tac, pci, rogue); pci is stored and
\* never read by the engine, and is left out.
CellTower(id, x, y, plmn, tech, arfcn, tac, rogue) ==
    [id |-> id, x |-> x, y |-> y, plmn |-> plmn, tech |-> tech,
     arfcn |-> arfcn, tac |-> tac, rogue |-> rogue]

pos(tw) == <<tw.x, tw.y>>

\* Segment(idx, a, b) with its default cal = set()
Segment(idx, a, b) == [idx |-> idx, a |-> a, b |-> b, cal |-> {}]

\* Route.from_polyline(pts).segments
from_polyline(pts) ==
    [i \in 1..(IF Len(pts) = 0 THEN 0 ELSE Len(pts) - 1) |->
        Segment(i - 1, pts[i], pts[i + 1])]

-----------------------------------------------------------------------------
(* RLCE engine *)

\* rebuild_cal's default radius_px = 220.0
radius_px == 22

\* dist(seg.mid(), tw.pos()) <= radius, on doubled coordinates (mid() halves).
MidWithin(seg, tw, radius) ==
    LET mx2 == seg.a[1] + seg.b[1]
        my2 == seg.a[2] + seg.b[2]
    IN  (mx2 - 2 * tw.x) * (mx2 - 2 * tw.x) + (my2 - 2 * tw.y) * (my2 - 2 * tw.y)
            <= 4 * radius * radius

\* Faulty variant of rebuild_cal: rogue towers are not left out.
rebuild_cal_keeps_rogue(segs, tws) ==
    [i \in 1..Len(segs) |->
        [segs[i] EXCEPT !.cal =
            {tws[k].id : k \in {k \in 1..Len(tws) :
                MidWithin(segs[i], tws[k], radius_px)}}]]

\* Faulty variant of rebuild_cal: seg.cal.clear() is left out.
rebuild_cal_no_clear(segs, tws) ==
    [i \in 1..Len(segs) |->
        [segs[i] EXCEPT !.cal = @ \cup
            {tws[k].id : k \in {k \in 1..Len(tws) :
                MidWithin(segs[i], tws[k], radius_px) /\ ~tws[k].rogue}}]]

\* Faulty variant of rebuild_cal: a set that held ids is cleared and not
\* refilled.
rebuild_cal_clear_only(segs, tws) ==
    [i \in 1..Len(segs) |->
        [segs[i] EXCEPT !.cal =
            IF @ # {} THEN {}
            ELSE {tws[k].id : k \in {k \in 1..Len(tws) :
                    MidWithin(segs[i], tws[k], radius_px) /\ ~tws[k].rogue}}]]

\* RLCE.rebuild_cal: the segments with every cal set cleared and refilled.
rebuild_cal(segs, tws) ==
    [i \in 1..Len(segs) |->
        [segs[i] EXCEPT !.cal =
            {tws[k].id : k \in {k \in 1..Len(tws) :
                MidWithin(segs[i], tws[k], radius_px) /\ ~tws[k].rogue}}]]

\* The distance from p to the segment of index i (0-based).
SegDist(p, i) == project_point_to_segment(p, segments[i + 1].a, segments[i + 1].b)

\* dists.sort(); dists[0][1]: the index of the least (distance, idx) pair.
nearest_idx(p) ==
    CHOOSE i \in 0..(Len(segments) - 1) :
        \A j \in 0..(Len(segments) - 1) :
            \/ DistLess(SegDist(p, i), SegDist(p, j))
            \/ DistEq(SegDist(p, i), SegDist(p, j)) /\ i <= j

\* d_new + h <= d_current, as PlusLess.
PlusLeq(dnew, h, dcur) ==
    LET Ln == dcur[1] * dnew[2] - dnew[1] * dcur[2] - h * h * dnew[2] * dcur[2]
    IN  /\ Ln >= 0
        /\ Ln * Ln >= 4 * h * h * dnew[1] * dnew[2] * dcur[2] * dcur[2]

\* Faulty variant of locate_segment: the hysteresis is left out of the test
\* (d_new < d_current).
locate_segment_no_hysteresis(p) ==
    LET nearest == nearest_idx(p)
    IN  IF last_seg_idx = None THEN nearest
        ELSE IF PlusLess(SegDist(p, nearest), 0, SegDist(p, last_seg_idx[1]))
             THEN nearest
             ELSE last_seg_idx[1]

\* Faulty variant of locate_segment: the hysteresis is added on the wrong side
\* (d_new < d_current + hysteresis).
locate_segment_wrong_side(p) ==
    LET nearest == nearest_idx(p)
    IN  IF last_seg_idx = None THEN nearest
        ELSE IF ~PlusLeq(SegDist(p, last_seg_idx[1]), hysteresis, SegDist(p, nearest))
             THEN nearest
             ELSE last_seg_idx[1]

\* RLCE.locate_segment(p), on a route with at least one segment: the value it
\* returns, which is also the value it leaves in last_seg_idx.
locate_segment(p) ==
    LET nearest == nearest_idx(p)
    IN  IF last_seg_idx = None THEN nearest
        ELSE IF PlusLess(SegDist(p, nearest), hysteresis, SegDist(p, last_seg_idx[1]))
             THEN nearest
             ELSE last_seg_idx[1]

Max(a, b) == IF a >= b THEN a ELSE b
Min(a, b) == IF a <= b THEN a ELSE b

\* Faulty variant of cal_window: only the segments at exactly grace steps from
\* idx are read.
cal_window_rim(idx) ==
    UNION {segments[j + 1].cal :
            j \in {Max(0, idx - grace), Min(Len(segments) - 1, idx + grace)}}

\* RLCE.cal_window(idx)
cal_window(idx) ==
    UNION {segments[j + 1].cal :
            j \in Max(0, idx - grace)..Min(Len(segments) - 1, idx + grace)}

\* Faulty variant of MinByDist: the last element of least distance.
MinByDist_last(tws, p) ==
    tws[CHOOSE k \in 1..Len(tws) :
            \A j \in 1..Len(tws) :
                /\ dist2(p, pos(tws[k])) <= dist2(p, pos(tws[j]))
                /\ j > k => dist2(p, pos(tws[j])) > dist2(p, pos(tws[k]))]

\* min(tws, key=lambda tw: dist(p, tw.pos())) on a non-empty list: the first
\* element of least distance.
MinByDist(tws, p) ==
    tws[CHOOSE k \in 1..Len(tws) :
            \A j \in 1..Len(tws) :
                /\ dist2(p, pos(tws[k])) <= dist2(p, pos(tws[j]))
                /\ j < k => dist2(p, pos(tws[j])) > dist2(p, pos(tws[k]))]

\* RLCE.nearest_tower(p), on a non-empty tower list
nearest_tower(p) == MinByDist(towers, p)

Abs(n) == IF n < 0 THEN -n ELSE n

\* Faulty variant of legitimacy_check: a missing prior tower counts twice.
legitimacy_check_double(cur, prev) ==
    (IF cur.plmn = operator_plmn THEN 1 ELSE 0)
    + (IF prev = None THEN 2 ELSE IF Abs(cur.tac - prev[1].tac) <= 1 THEN 1 ELSE 0)
    + (IF cur.arfcn \in ALLOWED_ARFCN(cur.tech) THEN 1 ELSE 0)

\* RLCE.legitimacy_check(cur, prev); prev is None or Some(tower)
legitimacy_check(cur, prev) ==
    (IF cur.plmn = operator_plmn THEN 1 ELSE 0)
    + (IF prev = None \/ Abs(cur.tac - prev[1].tac) <= 1 THEN 1 ELSE 0)
    + (IF cur.arfcn \in ALLOWED_ARFCN(cur.tech) THEN 1 ELSE 0)

\* The list [tw for tw in tws if tw.id in window], in list order.
SelectIn(tws, window) == SelectSeq(tws, LAMBDA tw : tw.id \in window)

\* The number of entries RLCE.log_event keeps (self.log[-8:]).
LOG_KEEP == 8

\* A line of the event log.  The wall-clock prefix time.strftime("%H:%M:%S")
\* of an event line is left out; cell is the id, or -1 for None.
LogLine(kind, seg, decision, cell) ==
    [kind |-> kind, seg |-> seg, decision |-> decision, cell |-> cell]

Message(kind) == LogLine(kind, -1, "", -1)

\* lst[-n:]
LastN(lst, n) ==
    IF Len(lst) <= n THEN lst ELSE SubSeq(lst, Len(lst) - n + 1, Len(lst))

\* RLCE.log_event(seg_idx, decision, cell_id): the log it leaves.
log_event(seg_idx, decision, cell_id) ==
    LastN(Append(log, LogLine("event", seg_idx, decision, cell_id)), LOG_KEEP)

\* Faulty variant of step_decide: a score of 2 or more is trusted whatever the
\* rogue flag says.
step_decide_trusts_score(seg_idx) ==
    LET window == cal_window(seg_idx)
        candidate == nearest_tower(train)
        allowed == candidate.id \in window
        score == legitimacy_check(candidate, last_serving)
        candidates == SelectIn(towers, window)
    IN  [seg_idx |-> seg_idx,
         window |-> window,
         candidate |-> candidate,
         prev |-> last_serving,
         score |-> IF allowed THEN None ELSE Some(score),
         decision |-> IF allowed THEN "ALLOWED"
                      ELSE IF score >= 2 THEN "ALLOWED*"
                      ELSE "BARRED",
         serving |-> IF allowed \/ score >= 2
                     THEN Some(candidate)
                     ELSE IF candidates # <<>>
                          THEN Some(MinByDist(candidates, train))
                          ELSE None]

\* Faulty variant of step_decide: the score is computed as if there were no
\* prior serving tower.
step_decide_forgets_prior(seg_idx) ==
    LET window == cal_window(seg_idx)
        candidate == nearest_tower(train)
        allowed == candidate.id \in window
        score == legitimacy_check(candidate, None)
        candidates == SelectIn(towers, window)
    IN  [seg_idx |-> seg_idx,
         window |-> window,
         candidate |-> candidate,
         prev |-> last_serving,
         score |-> IF allowed THEN None ELSE Some(score),
         decision |-> IF allowed THEN "ALLOWED"
                      ELSE IF score >= 2 /\ ~candidate.rogue THEN "ALLOWED*"
                      ELSE "BARRED",
         serving |-> IF allowed \/ (score >= 2 /\ ~candidate.rogue)
                     THEN Some(candidate)
                     ELSE IF candidates # <<>>
                          THEN Some(MinByDist(candidates, train))
                          ELSE None]

\* Faulty variant of step_decide: a rogue candidate that scores 2 or more is
\* left with the intermediate decision and stays the serving tower.
step_decide_leaves_check(seg_idx) ==
    LET window == cal_window(seg_idx)
        candidate == nearest_tower(train)
        allowed == candidate.id \in window
        score == legitimacy_check(candidate, last_serving)
        candidates == SelectIn(towers, window)
    IN  [seg_idx |-> seg_idx,
         window |-> window,
         candidate |-> candidate,
         prev |-> last_serving,
         score |-> IF allowed THEN None ELSE Some(score),
         decision |-> IF allowed THEN "ALLOWED"
                      ELSE IF score >= 2
                           THEN (IF candidate.rogue THEN "CHECK" ELSE "ALLOWED*")
                      ELSE "BARRED",
         serving |-> IF allowed \/ score >= 2
                     THEN Some(candidate)
                     ELSE IF candidates # <<>>
                          THEN Some(MinByDist(candidates, train))
                          ELSE None]

\* Faulty variant of step_decide: the candidate is looked up in the cal set of
\* the resolved segment alone, not in the window.
step_decide_no_grace(seg_idx) ==
    LET window == cal_window(seg_idx)
        candidate == nearest_tower(train)
        allowed == candidate.id \in segments[seg_idx + 1].cal
        score == legitimacy_check(candidate, last_serving)
        candidates == SelectIn(towers, window)
    IN  [seg_idx |-> seg_idx,
         window |-> window,
         candidate |-> candidate,
         prev |-> last_serving,
         score |-> IF allowed THEN None ELSE Some(score),
         decision |-> IF allowed THEN "ALLOWED"
                      ELSE IF score >= 2 /\ ~candidate.rogue THEN "ALLOWED*"
                      ELSE "BARRED",
         serving |-> IF allowed \/ (score >= 2 /\ ~candidate.rogue)
                     THEN Some(candidate)
                     ELSE IF candidates # <<>>
                          THEN Some(MinByDist(candidates, train))
                          ELSE None]

\* RLCE.step(train, now), lines 178-190, on a world with towers and segments:
\* its local variables once the decision is taken.  serving is None or
\* Some(tower); score is None when the candidate is in the window.
step_decide(seg_idx) ==
    LET window == cal_window(seg_idx)
        candidate == nearest_tower(train)
        allowed == candidate.id \in window
        score == legitimacy_check(candidate, last_serving)
        candidates == SelectIn(towers, window)
    IN  [seg_idx |-> seg_idx,
         window |-> window,
         candidate |-> candidate,
         prev |-> last_serving,
         score |-> IF allowed THEN None ELSE Some(score),
         decision |-> IF allowed THEN "ALLOWED"
                      ELSE IF score >= 2 /\ ~candidate.rogue THEN "ALLOWED*"
                      ELSE "BARRED",
         serving |-> IF allowed \/ (score >= 2 /\ ~candidate.rogue)
                     THEN Some(candidate)
                     ELSE IF candidates # <<>>
                          THEN Some(MinByDist(candidates, train))
                          ELSE None]

\* Faulty variant of rate_limited: the elapsed milliseconds are scaled by
\* 1000.0 once more before the comparison with poll_ms.
rate_limited_seconds == (now - last_poll_time) * 1000 < poll_ms

\* Faulty variant of rate_limited: the distance between the two times is taken,
\* whichever is the later.
rate_limited_abs == Abs(now - last_poll_time) < poll_ms

\* The rate limiter of RLCE.step: the call returns None at once.
rate_limited == now - last_poll_time < poll_ms

\* RLCE.step(train, now), called by main's loop.
StepCall ==
    /\ pc = "loop" /\ fault = "none"
    /\ pc' = "stepped"
    /\ UNCHANGED <<towers, segments, grace, hysteresis, poll_ms, train, now, msgs>>
    /\ IF rate_limited
       THEN /\ step_out' = None
            /\ step_locals' = None
            /\ UNCHANGED <<last_seg_idx, last_serving, serving_live,
                           last_poll_time, log, fault>>
       ELSE /\ last_poll_time' = now
            /\ IF segments = <<>>
               THEN \* locate_segment: dists[0] raises IndexError
                    /\ fault' = "IndexError"
                    /\ step_out' = None /\ step_locals' = None
                    /\ UNCHANGED <<last_seg_idx, last_serving, serving_live, log>>
               ELSE IF towers = <<>>
               THEN \* nearest_tower: min() of an empty list raises ValueError
                    /\ fault' = "ValueError"
                    /\ last_seg_idx' = Some(locate_segment(train))
                    /\ step_out' = None /\ step_locals' = None
                    /\ UNCHANGED <<last_serving, serving_live, log>>
               ELSE LET l == step_decide(locate_segment(train))
                    IN  /\ last_seg_idx' = Some(l.seg_idx)
                        /\ IF l.serving # None
                           THEN last_serving' = l.serving /\ serving_live' = TRUE
                           ELSE UNCHANGED <<last_serving, serving_live>>
                        /\ log' = log_event(l.seg_idx, l.decision,
                                    IF l.serving # None THEN l.serving[1].id ELSE -1)
                        /\ step_out' = <<l.seg_idx, l.decision, l.serving>>
                        /\ step_locals' = Some(l)
                        /\ UNCHANGED fault
    /\ UNCHANGED <<esc_first, running>>

\* main, lines 461-466: what the loop does with step's result before it draws.
PostStep ==
    /\ pc = "stepped" /\ fault = "none"
    /\ pc' = "loop"
    /\ step_out' = None /\ step_locals' = None
    /\ IF step_out # None
       THEN UNCHANGED <<last_seg_idx, fault>>
       ELSE IF segments = <<>>
            THEN fault' = "IndexError" /\ UNCHANGED last_seg_idx
            ELSE last_seg_idx' = Some(locate_segment(train)) /\ UNCHANGED fault
    /\ UNCHANGED <<towers, segments, grace, hysteresis, poll_ms, last_serving,
                   serving_live, last_poll_time, log, train, now, msgs>>
    /\ UNCHANGED <<esc_first, running>>

-----------------------------------------------------------------------------
(* main: the key handlers, the movement and the clock of the control loop *)

\* find_nearby_tower(towers, pos, radius): None, or Some(k) with towers[k] the
\* first tower of least distance among those within the radius.
find_nearby_tower(tws, p, radius) ==
    LET near == {k \in 1..Len(tws) : dist2(pos(tws[k]), p) <= radius * radius}
    IN  IF near = {} THEN None
        ELSE Some(CHOOSE k \in near :
                \A j \in near :
                    /\ dist2(pos(tws[k]), p) <= dist2(pos(tws[j]), p)
                    /\ j < k => dist2(pos(tws[j]), p) > dist2(pos(tws[k]), p))

\* The radius main passes to find_nearby_tower (radius=200).
TOGGLE_RADIUS == 20

\* K_r, lines 406-412: the tower with its rogue flag flipped and its plmn and
\* arfcn rewritten.  list(ALLOWED_ARFCN[tw.tech])[0] is the first element of a
\* set in its iteration order, which the language leaves open: any element.
Toggled(tw) ==
    IF ~tw.rogue
    THEN {[tw EXCEPT !.rogue = TRUE,
                     !.plmn = (SelectSeq(PLMNS, LAMBDA q : q # operator_plmn))[1],
                     !.arfcn = ROGUE_ARFCN[1]]}
    ELSE {[tw EXCEPT !.rogue = FALSE, !.plmn = operator_plmn, !.arfcn = a] :
            a \in ALLOWED_ARFCN(tw.tech)}

\* Faulty variant of KeyR: the toggle is not followed by rlce.rebuild_cal().
KeyR_no_rebuild ==
    /\ pc = "loop" /\ fault = "none"
    /\ LET found == find_nearby_tower(towers, train, TOGGLE_RADIUS)
       IN  IF found = None
           THEN /\ log' = Append(log, Message("no tower nearby to toggle"))
                /\ UNCHANGED <<towers, segments, last_serving>>
           ELSE \E tw \in Toggled(towers[found[1]]) :
                /\ towers' = [towers EXCEPT ![found[1]] = tw]
                \* last_serving may be that same tower object
                /\ last_serving' =
                      IF last_serving # None /\ serving_live
                         /\ last_serving[1].id = tw.id
                      THEN Some(tw) ELSE last_serving
                /\ segments' = segments
                /\ log' = Append(log, LogLine("tower rogue",  -1,
                                  IF tw.rogue THEN "True" ELSE "False", tw.id))
    /\ msgs' = msgs + 1
    /\ UNCHANGED <<grace, hysteresis, poll_ms, last_seg_idx, serving_live,
                   last_poll_time, train, now, step_out, step_locals, pc, fault>>
    /\ UNCHANGED <<esc_first, running>>

\* K_r: toggle the rogue flag of the tower near the vehicle, rebuild calibration.
KeyR ==
    /\ pc = "loop" /\ fault = "none"
    /\ LET found == find_nearby_tower(towers, train, TOGGLE_RADIUS)
       IN  IF found = None
           THEN /\ log' = Append(log, Message("no tower nearby to toggle"))
                /\ UNCHANGED <<towers, segments, last_serving>>
           ELSE \E tw \in Toggled(towers[found[1]]) :
                /\ towers' = [towers EXCEPT ![found[1]] = tw]
                \* last_serving may be that same tower object
                /\ last_serving' =
                      IF last_serving # None /\ serving_live
                         /\ last_serving[1].id = tw.id
                      THEN Some(tw) ELSE last_serving
                /\ segments' = rebuild_cal(segments, towers')
                /\ log' = Append(log, LogLine("tower rogue",  -1,
                                  IF tw.rogue THEN "True" ELSE "False", tw.id))
    /\ msgs' = msgs + 1
    /\ UNCHANGED <<grace, hysteresis, poll_ms, last_seg_idx, serving_live,
                   last_poll_time, train, now, step_out, step_locals, pc, fault>>
    /\ UNCHANGED <<esc_first, running>>

\* Faulty variant of KeyG: max(0, ...) is left out.
KeyG_no_floor ==
    /\ pc = "loop" /\ fault = "none"
    /\ grace' = grace - 1
    /\ UNCHANGED <<towers, segments, hysteresis, poll_ms, last_seg_idx,
                   last_serving, serving_live, last_poll_time, log, train, now,
                   step_out, step_locals, pc, fault, msgs>>
    /\ UNCHANGED <<esc_first, running>>

\* K_g and K_h
KeyG ==
    /\ pc = "loop" /\ fault = "none"
    /\ grace' = Max(0, grace - 1)
    /\ UNCHANGED <<towers, segments, hysteresis, poll_ms, last_seg_idx,
                   last_serving, serving_live, last_poll_time, log, train, now,
                   step_out, step_locals, pc, fault, msgs>>
    /\ UNCHANGED <<esc_first, running>>

KeyH ==
    /\ pc = "loop" /\ fault = "none"
    /\ grace' = Min(3, grace + 1)
    /\ UNCHANGED <<towers, segments, hysteresis, poll_ms, last_seg_idx,
                   last_serving, serving_live, last_poll_time, log, train, now,
                   step_out, step_locals, pc, fault, msgs>>
    /\ UNCHANGED <<esc_first, running>>

\* K_1 and K_2 (10 px a press, 0.0 to 120.0)
Key1 ==
    /\ pc = "loop" /\ fault = "none"
    /\ hysteresis' = Max(0, hysteresis - 1)
    /\ UNCHANGED <<towers, segments, grace, poll_ms, last_seg_idx,
                   last_serving, serving_live, last_poll_time, log, train, now,
                   step_out, step_locals, pc, fault, msgs>>
    /\ UNCHANGED <<esc_first, running>>

Key2 ==
    /\ pc = "loop" /\ fault = "none"
    /\ hysteresis' = Min(12, hysteresis + 1)
    /\ UNCHANGED <<towers, segments, grace, poll_ms, last_seg_idx,
                   last_serving, serving_live, last_poll_time, log, train, now,
                   step_out, step_locals, pc, fault, msgs>>
    /\ UNCHANGED <<esc_first, running>>

\* K_3 and K_4
Key3 ==
    /\ pc = "loop" /\ fault = "none"
    /\ poll_ms' = Max(50, poll_ms - 25)
    /\ UNCHANGED <<towers, segments, grace, hysteresis, last_seg_idx,
                   last_serving, serving_live, last_poll_time, log, train, now,
                   step_out, step_locals, pc, fault, msgs>>
    /\ UNCHANGED <<esc_first, running>>

Key4 ==
    /\ pc = "loop" /\ fault = "none"
    /\ poll_ms' = Min(1000, poll_ms + 25)
    /\ UNCHANGED <<towers, segments, grace, hysteresis, last_seg_idx,
                   last_serving, serving_live, last_poll_time, log, train, now,
                   step_out, step_locals, pc, fault, msgs>>
    /\ UNCHANGED <<esc_first, running>>

\* K_l: forced reselection
KeyL ==
    /\ pc = "loop" /\ fault = "none"
    /\ IF segments = <<>>
       THEN \* locate_segment raises IndexError
            /\ fault' = "IndexError"
            /\ UNCHANGED <<last_seg_idx, last_serving, serving_live, log, msgs>>
       ELSE LET seg_idx == locate_segment(train)
                candidates == SelectIn(towers, cal_window(seg_idx))
            IN  /\ last_seg_idx' = Some(seg_idx)
                /\ IF candidates # <<>>
                   THEN /\ last_serving' = Some(MinByDist(candidates, train))
                        /\ serving_live' = TRUE
                        /\ log' = Append(log, LogLine("forced reselection", -1, "",
                                                MinByDist(candidates, train).id))
                   ELSE /\ log' = Append(log, Message("no in-window towers for reselection"))
                        /\ UNCHANGED <<last_serving, serving_live>>
                /\ msgs' = msgs + 1
                /\ UNCHANGED fault
    /\ UNCHANGED <<towers, segments, grace, hysteresis, poll_ms, last_poll_time,
                   train, now, step_out, step_locals, pc>>
    /\ UNCHANGED <<esc_first, running>>

\* K_s: UI.save_screenshot
KeyS ==
    /\ pc = "loop" /\ fault = "none"
    /\ log' = Append(log, Message("saved"))
    /\ msgs' = msgs + 1
    /\ UNCHANGED <<towers, segments, grace, hysteresis, poll_ms, last_seg_idx,
                   last_serving, serving_live, last_poll_time, train, now,
                   step_out, step_locals, pc, fault>>
    /\ UNCHANGED <<esc_first, running>>

-----------------------------------------------------------------------------
(* World setup: the bounded worlds the engine is run on *)

\* The waypoints of the modelled routes: three segments with two right-angle
\* bends, and a route of one waypoint, which has no segment.
RoutePoints == << <<0, 0>>, <<40, 0>>, <<40, 40>>, <<80, 40>> >>

Polylines == {RoutePoints, << <<0, 0>> >>}

\* Where a tower may stand: at the midpoint of segment 1 (within the radius of
\* that segment only), at the midpoint of segment 0 (within the radius of
\* segment 0 only), and outside every segment's radius.
Sites == {<<40, 20>>, <<20, 0>>, <<50, -6>>}

\* What a tower may broadcast: [plmn, tech, arfcn, tac, rogue].
Trusted ==
    [plmn |-> "310260", tech |-> "LTE", arfcn |-> 66486, tac |-> 100, rogue |-> FALSE]

Impostor ==
    [plmn |-> "310410", tech |-> "NR", arfcn |-> 1492, tac |-> 103, rogue |-> TRUE]

Profiles ==
    {Trusted,
     Impostor,
     [plmn |-> "311480", tech |-> "LTE", arfcn |-> 66486, tac |-> 100, rogue |-> FALSE],
     [plmn |-> "310260", tech |-> "NR", arfcn |-> 523800, tac |-> 103, rogue |-> FALSE],
     [plmn |-> "310260", tech |-> "LTE", arfcn |-> 66486, tac |-> 100, rogue |-> TRUE]}

\* The tower list of the given sites and profiles: ids are the list
\* positions, as make_towers numbers them.
TowerList(c) ==
    [k \in 1..Len(c) |->
        CellTower(k - 1, c[k][1][1], c[k][1][2], c[k][2].plmn, c[k][2].tech,
                  c[k][2].arfcn, c[k][2].tac, c[k][2].rogue)]

\* The tower lists the engine is run on: none, one or two towers of any site
\* and profile, and three towers, each Trusted or Impostor, at any sites.
Worlds ==
    {TowerList(c) : c \in {<<>>} \cup [1..1 -> Sites \X Profiles]
                              \cup [1..2 -> Sites \X Profiles]
                              \cup [1..3 -> Sites \X {Trusted, Impostor}]}

\* Tower lists as make_towers returns them: max(2, n // 15) = 2 of the towers
\* are rogue, with another plmn than they drew and a channel of ROGUE_ARFCN.
MadeWorlds ==
    {<<CellTower(0, 40, 20, "310260", "LTE", 66486, 100, FALSE),
       CellTower(1, 20, 0, "311480", "NR", 1492, 103, TRUE),
       CellTower(2, 50, -6, "310260", "LTE", 3350, 100, TRUE)>>,
     <<CellTower(0, 36, 8, "310410", "NR", 4990, 101, TRUE),
       CellTower(1, 40, 20, "311480", "LTE", 700000, 100, TRUE),
       CellTower(2, 20, 0, "310260", "NR", 627936, 105, FALSE)>>}

\* Where the vehicle may be steered: the first waypoint, the midpoint of
\* segment 1, and a point near the first bend.
Positions == {<<0, 0>>, <<40, 20>>, <<38, 4>>}

\* The wall clock at startup (time.time() is far above every poll_ms), and how
\* long the explored runs last.
Epoch == 2000
MaxTime == 250

\* The time between two readings of the clock by the loop.
FrameMs == {250}

\* main's start_time = time.time(), taken when the clock of the model starts.
start_time == Epoch

\* ESC_DEBOUNCE_S = 0.50 and ESC_DOUBLE_S = 0.80, in ms
ESC_DEBOUNCE_S == 500
ESC_DOUBLE_S == 800

\* Faulty variant of KeyEsc: an armed ESC never expires.
KeyEsc_no_expiry ==
    /\ pc = "loop" /\ fault = "none"
    /\ IF now - start_time < ESC_DEBOUNCE_S
       THEN /\ log' = Append(log, Message("ESC ignored (debounce)"))
            /\ msgs' = msgs + 1
            /\ UNCHANGED <<esc_first, running>>
       ELSE IF esc_first = None
            THEN /\ esc_first' = Some(now)
                 /\ log' = Append(log, Message("Press ESC again to exit"))
                 /\ msgs' = msgs + 1
                 /\ UNCHANGED running
            ELSE /\ running' = FALSE
                 /\ UNCHANGED <<esc_first, log, msgs>>
    /\ UNCHANGED <<towers, segments, grace, hysteresis, poll_ms, last_seg_idx,
                   last_serving, serving_live, last_poll_time, train, now,
                   step_out, step_locals, pc, fault>>

\* K_ESCAPE
KeyEsc ==
    /\ pc = "loop" /\ fault = "none"
    /\ IF now - start_time < ESC_DEBOUNCE_S
       THEN /\ log' = Append(log, Message("ESC ignored (debounce)"))
            /\ msgs' = msgs + 1
            /\ UNCHANGED <<esc_first, running>>
       ELSE IF esc_first = None \/ now - esc_first[1] > ESC_DOUBLE_S
            THEN /\ esc_first' = Some(now)
                 /\ log' = Append(log, Message("Press ESC again to exit"))
                 /\ msgs' = msgs + 1
                 /\ UNCHANGED running
            ELSE /\ running' = FALSE
                 /\ UNCHANGED <<esc_first, log, msgs>>
    /\ UNCHANGED <<towers, segments, grace, hysteresis, poll_ms, last_seg_idx,
                   last_serving, serving_live, last_poll_time, train, now,
                   step_out, step_locals, pc, fault>>

\* K_n: towers[:] = make_towers(70); rebuild_cal().  The old tower objects,
\* last_serving among them, are no longer in the list.
KeyN ==
    /\ pc = "loop" /\ fault = "none"
    /\ towers' \in MadeWorlds
    /\ segments' = rebuild_cal(segments, towers')
    /\ serving_live' = FALSE
    /\ UNCHANGED <<grace, hysteresis, poll_ms, last_seg_idx, last_serving,
                   last_poll_time, log, train, now, step_out, step_locals, pc,
                   fault, msgs>>
    /\ UNCHANGED <<esc_first, running>>

\* main, lines 443-457: the vehicle moves (steered, or along the route).
Move ==
    /\ pc = "loop" /\ fault = "none"
    /\ \E p \in Positions : p # train /\ train' = p
    /\ UNCHANGED <<towers, segments, grace, hysteresis, poll_ms, last_seg_idx,
                   last_serving, serving_live, last_poll_time, log, now,
                   step_out, step_locals, pc, fault, msgs>>
    /\ UNCHANGED <<esc_first, running>>

\* main, lines 380-381: while running, now = time.time() at the top of the
\* loop.
Tick ==
    /\ pc = "loop" /\ fault = "none"
    /\ running
    /\ \E d \in FrameMs : now' = now + d
    /\ UNCHANGED <<towers, segments, grace, hysteresis, poll_ms, last_seg_idx,
                   last_serving, serving_live, last_poll_time, log, train,
                   step_out, step_locals, pc, fault, msgs>>
    /\ UNCHANGED <<esc_first, running>>

\* RLCE.__init__ on a route and a tower list, then rebuild_cal and the
\* vehicle put on the first waypoint (main, lines 370-377).
Setup(pts, tws) ==
    /\ towers = tws
    /\ segments = rebuild_cal(from_polyline(pts), tws)
    /\ train = pts[1]
    /\ grace = 1
    /\ hysteresis = 4
    /\ poll_ms = 250
    /\ last_seg_idx = None
    /\ last_serving = None
    /\ serving_live = FALSE
    /\ last_poll_time = 0
    /\ log = <<>>
    /\ now = Epoch
    /\ step_out = None
    /\ step_locals = None
    /\ pc = "loop"
    /\ fault = "none"
    /\ msgs = 0
    /\ esc_first = None
    /\ running = TRUE

\* main's startup: the demo route and a tower list of make_towers.
Init == \E w \in MadeWorlds : Setup(RoutePoints, w)

\* The bounds of the explored runs, on the state a step leads to: the clock,
\* and the key presses that count: the lines key handlers have written plus
\* how many presses the tunables are away from their defaults.
MaxKeys == 1

Drift == Abs(grace - 1) + Abs(hysteresis - 4) + Abs(poll_ms - 250) \div 25

InBounds ==
    /\ now <= Epoch + MaxTime
    /\ msgs + Drift <= MaxKeys

Next ==
    /\ \/ StepCall
       \/ PostStep
       \/ Tick
       \/ Move
       \/ KeyR
       \/ KeyG
       \/ KeyH
       \/ Key1
       \/ Key2
       \/ Key3
       \/ Key4
       \/ KeyL
       \/ KeyN
       \/ KeyS
       \/ KeyEsc
    /\ InBounds'

Spec == Init /\ [][Next]_vars

\* The engine on every world of the bounded set, the empty ones included,
\* driven by the loop without the handlers that change towers or write the log.
InitEngine == \E w \in Worlds : \E pts \in Polylines : Setup(pts, w)

NextEngine ==
    /\ \/ StepCall
       \/ PostStep
       \/ Tick
       \/ Move
       \/ KeyG
       \/ KeyH
    /\ now' <= Epoch + MaxTime

SpecEngine == InitEngine /\ [][NextEngine]_vars

-----------------------------------------------------------------------------
(* The segment locator on its own *)

\* The positions locate_segment is called with: a grid around the route, finer
\* near the two bends.
GridXs == {20, 34, 36, 38, 40, 44}
GridYs == {-4, 0, 2, 4, 8, 20, 38}
Grid == GridXs \X GridYs

\* RLCE.locate_segment(p) called with the vehicle at p.  step_out holds the
\* index it returns, step_locals its arguments and its nearest_idx.
LocateCall(p) ==
    /\ pc \in {"loop", "located"} /\ fault = "none"
    /\ segments # <<>>
    /\ train' = p
    /\ last_seg_idx' = Some(locate_segment(p))
    /\ step_out' = last_seg_idx'
    /\ step_locals' = Some([p |-> p, prev |-> last_seg_idx,
                            nearest_idx |-> nearest_idx(p)])
    /\ pc' = "located"
    /\ UNCHANGED <<towers, segments, grace, hysteresis, poll_ms, last_serving,
                   serving_live, last_poll_time, log, now, fault, msgs>>
    /\ UNCHANGED <<esc_first, running>>

\* The engine on the demo route, with any hysteresis the keys can set and any
\* segment already resolved.
InitLocate ==
    /\ towers = <<>>
    /\ segments = from_polyline(RoutePoints)
    /\ train \in Grid
    /\ grace = 1
    /\ hysteresis \in 0..12
    /\ poll_ms = 250
    /\ last_seg_idx \in {None} \cup {Some(i) : i \in 0..(Len(RoutePoints) - 2)}
    /\ last_serving = None
    /\ serving_live = FALSE
    /\ last_poll_time = 0
    /\ log = <<>>
    /\ now = Epoch
    /\ step_out = None
    /\ step_locals = None
    /\ pc = "loop"
    /\ fault = "none"
    /\ msgs = 0
    /\ esc_first = None
    /\ running = TRUE

NextLocate == \E p \in Grid : LocateCall(p)

SpecLocate == InitLocate /\ [][NextLocate]_vars

-----------------------------------------------------------------------------
(* The event log on its own *)

\* How many lines the explored runs let the key handlers write.
MaxLines == 9

\* The loop with the screenshot key as its only key.
NextLog ==
    /\ \/ StepCall
       \/ PostStep
       \/ Tick
       \/ KeyS
    /\ now' <= Epoch + MaxTime
    /\ msgs' <= MaxLines

SpecLog == Init /\ [][NextLog]_vars

-----------------------------------------------------------------------------
(* Properties of the segment locator, under SpecLocate *)

SegIdxs == 0..(Len(segments) - 1)

\* Segment i is a globally nearest segment of p.
IsNearest(p, i) == \A j \in SegIdxs : ~DistLess(SegDist(p, j), SegDist(p, i))

\* The current segment's distance exceeds the nearest segment's distance by
\* less than hysteresis.
WithinHysteresis(p) ==
    \E n \in SegIdxs :
        /\ IsNearest(p, n)
        /\ ~PlusLeq(SegDist(p, n), hysteresis, SegDist(p, last_seg_idx[1]))

\* C9: with hysteresis >= 0, a call of locate_segment at a position where the
\* current segment's distance exceeds the nearest segment's distance by less
\* than hysteresis returns the current index unchanged, and a call that follows
\* a call with the same position returns the same index again.
C9_LocateSticky ==
    [][LET p == train' IN
        LocateCall(p) =>
            /\ (last_seg_idx # None /\ hysteresis >= 0 /\ WithinHysteresis(p))
                    => (last_seg_idx' = last_seg_idx /\ step_out' = last_seg_idx)
            /\ (pc = "located" /\ p = train /\ hysteresis >= 0)
                    => (last_seg_idx' = last_seg_idx /\ step_out' = step_out)]_vars

\* A call has returned the current index although another segment is nearer.
C9_Witness ==
    /\ pc = "located"
    /\ hysteresis > 0
    /\ step_locals[1].prev # None
    /\ step_locals[1].nearest_idx # step_locals[1].prev[1]
    /\ DistLess(SegDist(train, step_locals[1].nearest_idx),
                SegDist(train, step_locals[1].prev[1]))
    /\ step_out = step_locals[1].prev

\* C10: with no prior resolved segment locate_segment returns a globally
\* nearest segment and stores it; otherwise it replaces the current segment by
\* the globally nearest one exactly when d_new + hysteresis < d_current, and
\* its result is always the previous current segment or a globally nearest one.
C10_LocateTransition ==
    [][LET p == train' IN
        LocateCall(p) =>
            LET r == step_out'[1]
            IN  /\ last_seg_idx' = Some(r)
                /\ last_seg_idx = None => IsNearest(p, r)
                /\ last_seg_idx # None =>
                    LET cur == last_seg_idx[1]
                        switch == \E n \in SegIdxs :
                                    /\ IsNearest(p, n)
                                    /\ PlusLess(SegDist(p, n), hysteresis, SegDist(p, cur))
                    IN  /\ r = cur \/ IsNearest(p, r)
                        /\ switch => (IsNearest(p, r) /\ r # cur)
                        /\ ~switch => r = cur]_vars

\* A call has replaced the current segment by a nearer one, hysteresis being
\* positive.
C10_Witness ==
    /\ pc = "located"
    /\ hysteresis > 0
    /\ step_locals[1].prev # None
    /\ step_out # step_locals[1].prev
    /\ last_seg_idx = step_out

\* The first call ever has resolved a segment.
C10_WitnessFirst ==
    /\ pc = "located"
    /\ step_locals[1].prev = None
    /\ last_seg_idx = Some(1)

-----------------------------------------------------------------------------
(* Properties of a poll, under SpecEngine *)

\* RLCE.step has just returned a decision: the poll was not rate-limited and
\* it did not fail.
PollCompleted == pc = "stepped" /\ step_out # None

\* The positions, in the tower list, of the towers whose id is in the window
\* of the resolved segment.
WindowMembers ==
    {k \in 1..Len(towers) : towers[k].id \in cal_window(step_out[1])}

\* Tower tw is a tower of least distance to the vehicle among those at the
\* positions ks of the tower list.
NearestAmong(tw, ks) ==
    /\ \E k \in ks : towers[k] = tw
    /\ \A k \in ks : dist2(train, pos(tw)) <= dist2(train, pos(towers[k]))

\* C1: a completed poll whose serving candidate (the nearest tower) is flagged
\* rogue and is not in the calibration window decides BARRED, whatever the
\* legitimacy score; if the window contains no tower the poll returns no
\* serving tower.
C1_RogueCandidateBarred ==
    (/\ PollCompleted
     /\ nearest_tower(train).rogue
     /\ nearest_tower(train).id \notin cal_window(step_out[1])) =>
        /\ step_out[2] = "BARRED"
        /\ WindowMembers = {} => step_out[3] = None

\* A rogue candidate with the full score of 3 was barred, and the empty window
\* left no serving tower.
C1_Witness ==
    /\ PollCompleted
    /\ nearest_tower(train).rogue
    /\ nearest_tower(train).id \notin cal_window(step_out[1])
    /\ legitimacy_check(nearest_tower(train), step_locals[1].prev) = 3
    /\ WindowMembers = {}
    /\ step_out[2] = "BARRED" /\ step_out[3] = None

\* Rogue candidates outside the window with each of the scores 0, 1 and 2.
C1_WitnessScore0 ==
    /\ PollCompleted /\ nearest_tower(train).rogue
    /\ nearest_tower(train).id \notin cal_window(step_out[1])
    /\ legitimacy_check(nearest_tower(train), step_locals[1].prev) = 0

C1_WitnessScore1 ==
    /\ PollCompleted /\ nearest_tower(train).rogue
    /\ nearest_tower(train).id \notin cal_window(step_out[1])
    /\ legitimacy_check(nearest_tower(train), step_locals[1].prev) = 1

C1_WitnessScore2 ==
    /\ PollCompleted /\ nearest_tower(train).rogue
    /\ nearest_tower(train).id \notin cal_window(step_out[1])
    /\ legitimacy_check(nearest_tower(train), step_locals[1].prev) = 2

\* C2: in a completed poll, if the id of the nearest tower is in the
\* calibration window of the resolved segment, the decision is ALLOWED and the
\* serving tower returned is that nearest tower.
C2_InWindowAllowed ==
    (PollCompleted /\ nearest_tower(train).id \in cal_window(step_out[1])) =>
        /\ step_out[2] = "ALLOWED"
        /\ step_out[3] = Some(nearest_tower(train))
        /\ NearestAmong(step_out[3][1], 1..Len(towers))

\* Three segments, one clean tower at the midpoint of segment 1, the vehicle
\* on segment 1, grace 0: ALLOWED, served by that tower.
C2_Witness ==
    /\ PollCompleted
    /\ Len(segments) = 3 /\ Len(towers) = 1 /\ grace = 0
    /\ pos(towers[1]) = <<40, 20>> /\ ~towers[1].rogue
    /\ train = <<40, 20>>
    /\ step_out = <<1, "ALLOWED", Some(towers[1])>>

\* C3: whenever the legitimacy score is computed (candidate not in the window)
\* it is an integer in 0..3, for every candidate and every prior tower and for
\* no prior tower, and a score of 2 or more with a candidate that is not
\* flagged rogue yields ALLOWED* with the candidate kept as serving tower.
C3_ScoreBoundsAndProvisional ==
    /\ \A i \in 1..Len(towers) :
        /\ legitimacy_check(towers[i], None) \in 0..3
        /\ \A j \in 1..Len(towers) :
            legitimacy_check(towers[i], Some(towers[j])) \in 0..3
    /\ (PollCompleted /\ nearest_tower(train).id \notin cal_window(step_out[1])) =>
        LET candidate == nearest_tower(train)
            score == legitimacy_check(candidate, step_locals[1].prev)
        IN  /\ score \in 0..3
            /\ step_locals[1].score = Some(score)
            /\ (score >= 2 /\ ~candidate.rogue) =>
                    /\ step_out[2] = "ALLOWED*"
                    /\ step_out[3] = Some(candidate)

\* A clean candidate outside the window scored exactly 2 against a prior
\* serving tower and was provisionally trusted.
C3_Witness ==
    /\ PollCompleted
    /\ step_locals[1].prev # None
    /\ ~nearest_tower(train).rogue
    /\ nearest_tower(train).id \notin cal_window(step_out[1])
    /\ legitimacy_check(nearest_tower(train), step_locals[1].prev) = 2
    /\ step_out[2] = "ALLOWED*"
    /\ step_out[3] = Some(nearest_tower(train))

\* C4: when a completed poll decides BARRED, the serving tower it returns is
\* none or a tower whose id is in the current window; it is never flagged
\* rogue, and when window members exist it is the one nearest to the vehicle.
C4_BarredReselection ==
    (PollCompleted /\ step_out[2] = "BARRED") =>
        /\ step_out[3] # None =>
            /\ step_out[3][1].id \in cal_window(step_out[1])
            /\ ~step_out[3][1].rogue
            /\ NearestAmong(step_out[3][1], WindowMembers)
        /\ WindowMembers # {} => step_out[3] # None

\* A barred poll reselected the nearer of two window members at different
\* distances.
C4_Witness ==
    /\ PollCompleted /\ step_out[2] = "BARRED"
    /\ step_out[3] # None
    /\ \E k \in WindowMembers :
        dist2(train, pos(towers[k])) > dist2(train, pos(step_out[3][1]))

\* C8: a poll on an empty world (zero towers or zero segments) returns a
\* defined result and never fails with an error.
C8_EmptyWorldNeverFails ==
    (towers = <<>> \/ segments = <<>>) => fault = "none"

-----------------------------------------------------------------------------
(* Properties of the control loop, under Spec and SpecLog *)

\* C5: after any sequence of control-loop events (rogue toggles, regeneration
\* of the tower set, tunable changes, polls) calibration has been rebuilt
\* before the next poll runs: whenever the loop is about to poll, every cal set
\* is what rebuild_cal makes of the current towers, and no cal set holds the id
\* of a tower that is flagged rogue.
C5_CalibrationFreshAtPoll ==
    (pc = "loop" /\ fault = "none") =>
        /\ segments = rebuild_cal(segments, towers)
        /\ \A i \in 1..Len(segments) : \A k \in 1..Len(towers) :
            towers[k].rogue => towers[k].id \notin segments[i].cal
        /\ \A i \in 1..Len(segments) : \A k \in 1..Len(towers) :
            (~towers[k].rogue /\ MidWithin(segments[i], towers[k], radius_px))
                => towers[k].id \in segments[i].cal

\* The last event flagged a tower rogue that stands within the radius of a
\* segment, and the loop is about to poll.
C5_Witness ==
    /\ pc = "loop" /\ fault = "none"
    /\ log # <<>>
    /\ log[Len(log)].kind = "tower rogue" /\ log[Len(log)].decision = "True"
    /\ \E k \in 1..Len(towers) : \E i \in 1..Len(segments) :
        /\ towers[k].id = log[Len(log)].cell
        /\ towers[k].rogue
        /\ MidWithin(segments[i], towers[k], radius_px)

\* The tower set was regenerated after a poll had served a tower.
C5_WitnessRegenerated ==
    /\ pc = "loop" /\ fault = "none"
    /\ last_serving # None /\ ~serving_live

\* C6: a call of RLCE.step made less than poll_ms milliseconds after the last
\* completed poll returns no decision and leaves the last resolved segment,
\* the last serving tower, the last poll timestamp and the event log
\* unchanged; and a call that returns a decision leaves the limiter closed, so
\* that repeating it without a time advance yields no new classification.
C6_RateLimitedNoOp ==
    [][StepCall =>
        /\ (now - last_poll_time < poll_ms) =>
            /\ step_out' = None
            /\ UNCHANGED <<last_seg_idx, last_serving, last_poll_time, log>>
        /\ step_out' # None =>
            /\ ~(now - last_poll_time < poll_ms)
            /\ now' - last_poll_time' < poll_ms']_vars

\* A call inside the cooldown of a completed poll has returned None.
C6_Witness ==
    /\ pc = "stepped" /\ fault = "none"
    /\ step_out = None
    /\ now - last_poll_time < poll_ms
    /\ log # <<>> /\ log[Len(log)].kind = "event"

\* C7: in every reachable state the event log holds at most 8 entries.
C7_LogAtMostEight == Len(log) <= LOG_KEEP

-----------------------------------------------------------------------------
(* Further properties of a poll, under SpecEngine *)

\* C11: a completed poll replaces the last accepted serving tower only when it
\* determined a serving tower, and then by that tower; a BARRED poll with no
\* window member returns none and leaves the accepted tower unchanged; and the
\* legitimacy score that decides the poll is computed against the tower
\* accepted before the poll.
C11_LastServingFrame ==
    [][StepCall =>
        /\ last_serving' # last_serving => step_out' # None
        /\ step_out' # None =>
            /\ step_out'[3] # None => last_serving' = step_out'[3]
            /\ step_out'[3] = None =>
                /\ last_serving' = last_serving
                /\ step_out'[2] = "BARRED"
                /\ \A k \in 1..Len(towers) :
                    towers[k].id \notin cal_window(step_out'[1])
            /\ nearest_tower(train).id \notin cal_window(step_out'[1]) =>
                (step_out'[2] = "ALLOWED*"
                    <=> /\ legitimacy_check(nearest_tower(train), last_serving) >= 2
                        /\ ~nearest_tower(train).rogue)]_vars

\* A poll was barred with no window member and returned none, while a tower
\* accepted earlier stays in state.
C11_Witness ==
    /\ PollCompleted
    /\ step_out[2] = "BARRED" /\ step_out[3] = None
    /\ last_serving # None
    /\ step_locals[1].prev = last_serving

\* A clean candidate was barred because its tracking area is far from that of
\* the tower accepted before the poll.
C11_WitnessPriorDecides ==
    /\ PollCompleted
    /\ step_out[2] = "BARRED"
    /\ ~nearest_tower(train).rogue
    /\ step_locals[1].prev # None
    /\ legitimacy_check(nearest_tower(train), None) >= 2

\* Tower tw stands at a position k of ks in the tower list, no tower at a
\* position of ks is nearer to the vehicle, and none at an earlier position of
\* ks is as near.
FirstNearestAmong(tw, ks) ==
    \E k \in ks :
        /\ towers[k] = tw
        /\ \A j \in ks :
            /\ dist2(train, pos(tw)) <= dist2(train, pos(towers[j]))
            /\ j < k => dist2(train, pos(towers[j])) > dist2(train, pos(tw))

\* C12: the serving candidate of a poll is the tower at minimum distance from
\* the vehicle, the first in the tower list's order among equidistant ones; the
\* same rule picks the tower of a BARRED reselection among the window members.
C12_FirstNearestWins ==
    PollCompleted =>
        /\ FirstNearestAmong(step_locals[1].candidate, 1..Len(towers))
        /\ step_out[2] \in {"ALLOWED", "ALLOWED*"} =>
            /\ step_out[3] # None
            /\ FirstNearestAmong(step_out[3][1], 1..Len(towers))
        /\ (step_out[2] = "BARRED" /\ step_out[3] # None) =>
            FirstNearestAmong(step_out[3][1], WindowMembers)

\* Two towers [A, B] are equidistant from the vehicle and nearest to it; the
\* poll took A as candidate and serves it.
C12_Witness ==
    /\ PollCompleted
    /\ Len(towers) = 2
    /\ dist2(train, pos(towers[1])) = dist2(train, pos(towers[2]))
    /\ towers[1] # towers[2]
    /\ step_locals[1].candidate = towers[1]
    /\ step_out[3] = Some(towers[1])

\* A barred poll reselected the first of two equidistant window members.
C12_WitnessReselection ==
    /\ PollCompleted
    /\ step_out[2] = "BARRED" /\ step_out[3] # None
    /\ \E j \in WindowMembers :
        /\ towers[j] # step_out[3][1]
        /\ dist2(train, pos(towers[j])) = dist2(train, pos(step_out[3][1]))

\* The union of the cal sets of the segments whose index is a valid index
\* within g of idx.
WindowAt(idx, g) ==
    UNION {segments[j + 1].cal : j \in {j \in SegIdxs : idx - g <= j /\ j <= idx + g}}

\* C13: for a fixed segment index and fixed calibration sets cal_window is
\* monotone in grace: across a step that changes grace and leaves the cal sets
\* alone, the window of every segment index under the smaller grace is a subset
\* of its window under the larger grace; and every window is the union of the
\* cal sets of the segments in [index - grace, index + grace] clamped to the
\* valid indices, which is monotone over all of 0..3.
C13_WindowMonotoneInGrace ==
    [][(grace' # grace /\ segments' = segments) =>
        \A idx \in SegIdxs :
            /\ grace' > grace => cal_window(idx) \subseteq cal_window(idx)'
            /\ grace' < grace => cal_window(idx)' \subseteq cal_window(idx)
            /\ cal_window(idx) = WindowAt(idx, grace)
            /\ cal_window(idx)' = WindowAt(idx, grace')
            /\ \A g1 \in 0..3 : \A g2 \in g1..3 :
                WindowAt(idx, g1) \subseteq WindowAt(idx, g2)]_vars

\* Grace was lowered to 0, and the window of segment 1 is non-empty and
\* strictly inside its window under grace 1.
C13_Witness ==
    /\ grace = 0
    /\ Len(segments) = 3
    /\ cal_window(1) # {}
    /\ cal_window(1) # WindowAt(1, 1)
    /\ cal_window(1) \subseteq WindowAt(1, 1)

-----------------------------------------------------------------------------
(* The calibration builder on its own: RLCE.rebuild_cal called, once and
   again, on an engine whose segments hold any cal sets *)

\* What a cal set may hold before a call: nothing, the id of a tower, ids of
\* towers that are gone.
StaleCals == {{}, {0}, {1, 7}}

\* rlce.rebuild_cal(): step_locals keeps the segments as the call found them,
\* pc tells one call from two in a row.
RebuildCall ==
    /\ pc \in {"loop", "rebuilt"} /\ fault = "none"
    /\ segments' = rebuild_cal(segments, towers)
    /\ step_locals' = Some(segments)
    /\ pc' = IF pc = "loop" THEN "rebuilt" ELSE "rebuilt again"
    /\ UNCHANGED <<towers, grace, hysteresis, poll_ms, last_seg_idx, last_serving,
                   serving_live, last_poll_time, log, train, now, step_out,
                   fault, msgs>>
    /\ UNCHANGED <<esc_first, running>>

\* An engine just constructed on any tower list, its segments holding any
\* cal sets.
InitCal ==
    \E w \in Worlds : \E pts \in Polylines :
        \E stale \in [1..Len(from_polyline(pts)) -> StaleCals] :
            /\ towers = w
            /\ segments = [i \in 1..Len(from_polyline(pts)) |->
                            [from_polyline(pts)[i] EXCEPT !.cal = stale[i]]]
            /\ train = pts[1]
            /\ grace = 1
            /\ hysteresis = 4
            /\ poll_ms = 250
            /\ last_seg_idx = None
            /\ last_serving = None
            /\ serving_live = FALSE
            /\ last_poll_time = 0
            /\ log = <<>>
            /\ now = Epoch
            /\ step_out = None
            /\ step_locals = None
            /\ pc = "loop"
            /\ fault = "none"
            /\ msgs = 0
            /\ esc_first = None
            /\ running = TRUE

NextCal == RebuildCall

SpecCal == InitCal /\ [][NextCal]_vars

\* The ids of the towers that are not flagged rogue and stand within
\* radius_px of the midpoint of seg (distances taken on doubled coordinates).
CalibratedIds(seg) ==
    {towers[k].id : k \in {k \in 1..Len(towers) :
        /\ ~towers[k].rogue
        /\ dist2(<<seg.a[1] + seg.b[1], seg.a[2] + seg.b[2]>>,
                 <<2 * towers[k].x, 2 * towers[k].y>>)
                <= (2 * radius_px) * (2 * radius_px)}}

\* C14: after rebuild_cal, whatever each cal set held before, every segment's
\* cal set is exactly the set of ids of the towers within the radius of its
\* midpoint that are not flagged rogue (empty if there is none), and the
\* segments are otherwise as they were.
C14_RebuildExact ==
    pc \in {"rebuilt", "rebuilt again"} =>
        /\ Len(segments) = Len(step_locals[1])
        /\ \A i \in 1..Len(segments) :
            /\ segments[i].cal = CalibratedIds(segments[i])
            /\ segments[i].a = step_locals[1][i].a
            /\ segments[i].b = step_locals[1][i].b
            /\ segments[i].idx = step_locals[1][i].idx

\* One call has emptied a cal set that held ids and has given another segment
\* a non-empty set other than the one it held.
C14_Witness ==
    /\ pc = "rebuilt"
    /\ \E i \in 1..Len(segments) :
        step_locals[1][i].cal # {} /\ segments[i].cal = {}
    /\ \E j \in 1..Len(segments) :
        /\ segments[j].cal # {}
        /\ step_locals[1][j].cal # {}
        /\ segments[j].cal # step_locals[1][j].cal

\* C15: rebuild_cal is idempotent: a call that follows a call, the route, the
\* towers and the radius being the same, leaves every cal set as the first
\* call made it.
C15_RebuildIdempotent ==
    [][(RebuildCall /\ pc = "rebuilt") =>
        (segments' = segments /\ segments' = rebuild_cal(segments, towers))]_vars

\* A second call in a row has returned, on segments of which one holds ids,
\* and the first call had changed the sets it found.
C15_Witness ==
    /\ pc = "rebuilt again"
    /\ step_locals[1] = segments
    /\ \E i \in 1..Len(segments) : segments[i].cal # {}
    /\ \E j \in 1..Len(segments) : segments[j].cal = {}

-----------------------------------------------------------------------------
(* The ESC key of the control loop on its own *)

\* How long after startup ESC presses are explored, and how many lines they
\* may write.
MaxEscTime == 2300
MaxEscLines == 4

\* The time between two readings of the clock, fine enough to meet both ESC
\* deadlines exactly.
EscFrameMs == {100}

\* main, lines 380-381: while running, now = time.time().
TickEsc ==
    /\ pc = "loop" /\ fault = "none"
    /\ running
    /\ \E d \in EscFrameMs : now' = now + d
    /\ UNCHANGED <<towers, segments, grace, hysteresis, poll_ms, last_seg_idx,
                   last_serving, serving_live, last_poll_time, log, train,
                   step_out, step_locals, pc, fault, msgs, esc_first, running>>

NextEsc ==
    /\ \/ KeyEsc
       \/ TickEsc
    /\ now' <= Epoch + MaxEscTime
    /\ msgs' <= MaxEscLines

SpecEsc == Init /\ [][NextEsc]_vars

\* C16: the loop stops because of ESC only on a confirmed double press.  An
\* ESC in the first 500 ms after startup changes neither the arming nor
\* running; an accepted ESC with no arming, or more than 800 ms after the
\* arming ESC, arms (again) and does not stop the loop; the loop stops only on
\* an ESC no more than 800 ms after an arming ESC that was itself accepted,
\* and every such ESC stops it.
C16_EscDoublePress ==
    [][/\ (running /\ ~running') =>
            /\ KeyEsc
            /\ esc_first # None
            /\ now - esc_first[1] <= 800
            /\ esc_first[1] - start_time >= 500
       /\ KeyEsc =>
            /\ now - start_time < 500 => UNCHANGED <<esc_first, running>>
            /\ (now - start_time >= 500 /\ esc_first = None) =>
                    (esc_first' = Some(now) /\ running' = running)
            /\ (now - start_time >= 500 /\ esc_first # None
                    /\ now - esc_first[1] > 800) =>
                    (esc_first' = Some(now) /\ running' = running)
            /\ (now - start_time >= 500 /\ esc_first # None
                    /\ now - esc_first[1] <= 800) =>
                    (running' = FALSE /\ esc_first' = esc_first)
       /\ ~running => ~running']_vars

\* The loop was stopped by an ESC exactly 800 ms after an arming ESC that had
\* replaced an expired one.
C16_Witness ==
    /\ ~running
    /\ esc_first # None
    /\ now - esc_first[1] = 800
    /\ Len(log) = 2
    /\ log[1].kind = "Press ESC again to exit"
    /\ log[2].kind = "Press ESC again to exit"

\* An ESC at 400 ms was ignored, and the ESC at 500 ms armed the exit.
C16_WitnessDebounce ==
    /\ running
    /\ esc_first = Some(start_time + 500)
    /\ Len(log) = 2
    /\ log[1].kind = "ESC ignored (debounce)"

-----------------------------------------------------------------------------
(* Further properties of the control loop, under Spec *)

\* C17: engine state is mutated only through the engine's own operations: the
\* last serving tower, the last poll timestamp and the event log change only
\* in RLCE.step, and the last resolved segment only in RLCE.locate_segment
\* (called by step, by the cooldown branch and by the L key); no key handler or
\* UI operation writes them.
C17_EngineStateOwnedByEngine ==
    [][/\ (last_serving' # last_serving \/ last_poll_time' # last_poll_time
            \/ log' # log) => StepCall
       /\ last_seg_idx' # last_seg_idx => (StepCall \/ PostStep \/ KeyL)]_vars

\* Taken apart: the event log changes only in RLCE.step.
C17_LogOwnedByEngine == [][log' # log => StepCall]_vars

\* Taken apart: the last serving tower changes only in RLCE.step.
C17_ServingOwnedByEngine == [][last_serving' # last_serving => StepCall]_vars

-----------------------------------------------------------------------------
(* The configuration keys with the engine, from the defaults, without a limit
   on the number of presses *)

NextTune ==
    \/ KeyG
    \/ KeyH
    \/ Key1
    \/ Key2
    \/ Key3
    \/ Key4
    \/ StepCall
    \/ PostStep

SpecTune == Init /\ [][NextTune]_vars

\* grace within 0..3, hysteresis within 0..120 px, poll_ms within 50..1000.
TunablesInRange ==
    /\ grace \in 0..3
    /\ hysteresis * 10 \in 0..120
    /\ poll_ms \in 50..1000

\* C18: after any sequence of configuration key events from the defaults
\* grace = 1, hysteresis = 40, poll_ms = 250, grace is within 0..3, hysteresis
\* within 0..120 and poll_ms within 50..1000; the keys move a tunable by one
\* step or leave it at its bound, and the engine's operations never change a
\* tunable.
C18_TunablesClamped ==
    [][/\ TunablesInRange
       /\ TunablesInRange'
       /\ (StepCall \/ PostStep) => UNCHANGED <<grace, hysteresis, poll_ms>>
       /\ KeyG => grace' = (IF grace = 0 THEN 0 ELSE grace - 1)
       /\ KeyH => grace' = (IF grace = 3 THEN 3 ELSE grace + 1)
       /\ Key1 => hysteresis' = (IF hysteresis = 0 THEN 0 ELSE hysteresis - 1)
       /\ Key2 => hysteresis' = (IF hysteresis = 12 THEN 12 ELSE hysteresis + 1)
       /\ Key3 => poll_ms' = (IF poll_ms < 75 THEN 50 ELSE poll_ms - 25)
       /\ Key4 => poll_ms' = (IF poll_ms > 975 THEN 1000 ELSE poll_ms + 25)]_vars

\* Every tunable has been brought down to its lower bound, and a poll has run
\* with these values.
C18_Witness ==
    /\ grace = 0 /\ hysteresis = 0 /\ poll_ms = 50
    /\ PollCompleted

\* Every tunable has been brought up to its upper bound.
C18_WitnessUpper ==
    grace = 3 /\ hysteresis = 12 /\ poll_ms = 1000

-----------------------------------------------------------------------------
(* Rogue towers and the serving tower, under Spec *)

\* C19: calibration being rebuilt after the last tower change, the serving
\* tower returned by a completed poll is never flagged rogue, whatever the
\* decision; the decision returned and logged is ALLOWED, ALLOWED* or BARRED;
\* and no serving tower is returned only with BARRED.
C19_ServingNeverRogue ==
    (PollCompleted /\ segments = rebuild_cal(segments, towers)) =>
        /\ step_out[2] \in {"ALLOWED", "ALLOWED*", "BARRED"}
        /\ step_out[3] # None =>
            /\ ~step_out[3][1].rogue
            /\ \E k \in 1..Len(towers) : towers[k] = step_out[3][1]
        /\ step_out[3] = None => step_out[2] = "BARRED"
        /\ log # <<>>
        /\ log[Len(log)] = LogLine("event", step_out[1], step_out[2],
                            IF step_out[3] = None THEN -1 ELSE step_out[3][1].id)

\* The tower nearest to the vehicle was toggled rogue, and the poll that
\* followed the toggle has barred it.
C19_Witness ==
    /\ PollCompleted
    /\ Len(log) >= 2
    /\ log[Len(log) - 1].kind = "tower rogue"
    /\ log[Len(log) - 1].decision = "True"
    /\ nearest_tower(train).id = log[Len(log) - 1].cell
    /\ nearest_tower(train).rogue
    /\ step_out[2] = "BARRED"

\* C20: in every reachable state of the control loop the last accepted serving
\* tower held in engine state is not flagged rogue.
C20_LastServingNeverRogue ==
    last_serving # None => ~last_serving[1].rogue

-----------------------------------------------------------------------------
(* RLCE.step called with any time, earlier ones included, the poll interval
   changing between calls *)

\* The times step is called with: before startup, at startup, and 225, 250
\* and 500 ms after it.
ClockTimes == {Epoch - 100, Epoch, Epoch + 225, Epoch + 250, Epoch + 500}

\* How many presses of the 3 and 4 keys poll_ms may be away from its default.
MaxPollSteps == 1

\* main, line 381: now = time.time(), which may step backwards; it is the now
\* that RLCE.step is called with.
SetClock ==
    /\ pc = "loop" /\ fault = "none"
    /\ running
    /\ \E t \in ClockTimes : t # now /\ now' = t
    /\ UNCHANGED <<towers, segments, grace, hysteresis, poll_ms, last_seg_idx,
                   last_serving, serving_live, last_poll_time, log, train,
                   step_out, step_locals, pc, fault, msgs, esc_first, running>>

NextClock ==
    /\ \/ StepCall
       \/ PostStep
       \/ SetClock
       \/ Key3
       \/ Key4
       \/ KeyS
    /\ Abs(poll_ms' - 250) <= 25 * MaxPollSteps
    /\ msgs' <= MaxLines

SpecClock == Init /\ [][NextClock]_vars

\* C21: with poll_ms > 0, over any sequence of step calls with arbitrary times
\* and poll_ms changes between calls, the last poll timestamp never decreases;
\* a completed poll is at least poll_ms (as read by that call) after the one
\* before it and takes the time of the call as the new timestamp; and it
\* appends exactly one entry to the event log: its own, after the entries the
\* log held, of which the oldest are dropped beyond 8.
C21_PollClock ==
    [][/\ poll_ms > 0 => last_poll_time' >= last_poll_time
       /\ (StepCall /\ poll_ms > 0 /\ step_out' # None) =>
            /\ now - last_poll_time >= poll_ms
            /\ last_poll_time' = now
            /\ last_poll_time' > last_poll_time
            /\ Len(log') = (IF Len(log) < 8 THEN Len(log) + 1 ELSE 8)
            /\ log'[Len(log')] =
                    LogLine("event", step_out'[1], step_out'[2],
                            IF step_out'[3] = None THEN -1 ELSE step_out'[3][1].id)
            /\ \A i \in 1..(Len(log') - 1) :
                    log'[i] = log[Len(log) + 1 - Len(log') + i]
       /\ (StepCall /\ step_out' = None) =>
            (log' = log /\ last_poll_time' = last_poll_time)]_vars

\* A call with a time before the last poll was refused, the poll interval
\* having been changed since that poll.
C21_Witness ==
    /\ pc = "stepped" /\ step_out = None
    /\ now < last_poll_time
    /\ poll_ms # 250
    /\ log # <<>>

\* A poll completed exactly poll_ms after the one before it, after the clock
\* had gone back and forth.
C21_WitnessApart ==
    /\ PollCompleted
    /\ poll_ms = 225
    /\ last_poll_time = Epoch + 225
    /\ Len(log) >= 2
    /\ log[Len(log) - 1].kind = "event"

\* A poll appended its entry to a log of 9 lines, of which 7 are kept.
C21_WitnessTrim ==
    /\ PollCompleted
    /\ Len(log) = 8
    /\ msgs = 9
    /\ log[1].kind = "saved"
    /\ log[8].kind = "event"

=============================================================================
